---------------------------- MODULE Spec2Model ----------------------------
(***************************************************************************)
(* A model of dankcli_lib's Caption class (src/dankcli_lib/caption.py):     *)
(*   - the size-budget compressor: compress_to_size, _convert_png_to_jpeg,  *)
(*     _compress_jpeg and _compress_gif, one action per step of each loop;  *)
(*   - the text wrapper _wrap_text, one action per loop step;               *)
(*   - the Caption object: __init__, _process_text, generate, and the       *)
(*     public calls to_buffer and save with generate_gif's frame loop.      *)
(* The codecs (PIL's Image.save) are external: the size of an encoding is   *)
(* any byte count of Sizes.  Byte counts are abstract units.                *)
(***************************************************************************)
EXTENDS Integers, Sequences, FiniteSets, TLC

\* ------------------------------------------------------------------ bounds
\* Largest byte count (buffer sizes, encoded sizes and budgets are 1..MaxSize).
MaxSize == 3

\* ------------------------------------------------------- program constants
\* _compress_jpeg: "for quality in [85, 55, 30]"
Presets == <<85, 55, 30>>
\* _compress_jpeg: "scale = 0.7", in tenths
StartScale == 7
\* _compress_jpeg: "scale -= 0.1", in tenths
ScaleStep == 1
\* _compress_jpeg: "img.save(output, format='JPEG', quality=50, optimize=True)"
ResizeQuality == 50
\* _compress_gif: "current_width = min(img.width, 800)"
GifMaxWidth == 800
\* _compress_gif: "colors = 256"
GifStartColors == 256
\* _compress_gif: "if colors > 64"
GifColorFloor == 64
\* _compress_gif: "elif current_width > 200"
GifWidthFloor == 200
\* _compress_gif: "current_width -= 100"
GifWidthStep == 100

\* ------------------------------------------------------------ input spaces
Sizes == 1..MaxSize
Formats == {"GIF", "PNG", "JPEG"}
\* original_format: None, or a name the code upper-cases
OriginalFormats == {"NONE", "GIF", "PNG", "JPEG"}
\* pixel modes a decoded buffer of each format can have
ModesOf(f) == CASE f = "GIF"  -> {"P"}
                [] f = "PNG"  -> {"RGB", "RGBA", "P"}
                [] f = "JPEG" -> {"RGB", "L"}
Widths == {1, 15, 90, 150, 200, 250, 300, 850, 2000}
Heights == {1, 2, 100, 2000}

NoBuffer == [src |-> "none", fmt |-> "none", mode |-> "none", w |-> 0, h |-> 0,
             size |-> 0, quality |-> 0, colors |-> 0]
NoImage == [mode |-> "none", w |-> 0, h |-> 0]

\* A buffer the caller passes in: an encoded image of format f.
CallerBuffer(f, m, w, h, s) ==
    [src |-> "caller", fmt |-> f, mode |-> m, w |-> w, h |-> h,
     size |-> s, quality |-> 0, colors |-> 0]

\* What Image.save writes: format, parameters, dimensions and s bytes.
Encoded(f, m, q, c, w, h, s) ==
    [src |-> "encoder", fmt |-> f, mode |-> m, w |-> w, h |-> h,
     size |-> s, quality |-> q, colors |-> c]

\* The parameters of one encode, as kept in the trace of encodes.
Params(b) == [fmt |-> b.fmt, quality |-> b.quality, colors |-> b.colors,
              w |-> b.w, h |-> b.h]

Min(a, b) == IF a <= b THEN a ELSE b

VARIABLES
    \* compress_to_size: arguments
    buffer, target_size, original_format,
    \* compress_to_size: control and locals
    pc, format, img, output, result,
    \* _compress_jpeg locals: index of the preset loop, scale in tenths
    qi, scale,
    \* _compress_gif locals
    current_width, colors,
    \* history: the parameters of every encode so far, the number of pixel
    \* format conversions and of Image.open calls
    encodes, nConvert, nDecode,
    \* _wrap_text: arguments, locals, return value
    text, max_width, words, i, line, lines, wpc, wrapped,
    \* a Caption object: the constructor's arguments, the object's fields,
    \* the position in its lifecycle, the public call made on it
    ctor, self, gpc, call,
    \* _process_text: return value;  generate: the canvas it returns
    processed, canvas,
    \* generate_gif locals: the image ImageSequence.Iterator walks, frame
    \* index, frames, durations, original_image, original_size
    sequence, fk, frames, durations, original_image, original_size,
    \* to_buffer / save: the buffer in hand, and what is returned or written
    outbuf, ret

cvars == <<buffer, target_size, original_format, pc, format, img, output,
           result, qi, scale, current_width, colors, encodes, nConvert, nDecode>>
wvars == <<text, max_width, words, i, line, lines, wpc, wrapped>>
gvars == <<ctor, self, gpc, call, processed, canvas, sequence, fk, frames,
           durations, original_image, original_size, outbuf, ret>>
vars == <<cvars, wvars, gvars>>

\* ------------------------------------------------- arithmetic of the code
\* The largest power of two strictly below n (n >= 2), from p = 1.
RECURSIVE Pow2Below(_, _)
Pow2Below(n, p) == IF 2 * p < n THEN Pow2Below(n, 2 * p) ELSE p

\* int(n * scale) of _compress_jpeg, scale being the double reached from 0.7
\* by k-7 subtractions of 0.1:
\*   k = 7, 6: the doubles 0.7 and 0.6, below 7/10 and 6/10 by 2/5 and 1/5
\*     of 2^-53;  k = 5: exactly 0.5;  k = 4: 0.4;  k = 3..1:
\*     0.30000000000000004, 0.20000000000000004, 0.10000000000000003, above
\*     k/10;  k = 0: 2.7755575615628914e-17;  k < 0: negative.
\* The product is rounded to a double and truncated towards zero.  It differs
\* from the exact quotient only where n*k/10 is an integer q and the double
\* product rounds below q: for k = 7, when 2n/5 exceeds the largest power of
\* two below q (the half-spacing of doubles below q, in units of 2^-53); for
\* k = 6 the deficit n/5 never exceeds it.
IntScale(n, k) ==
    IF k = 7 /\ (7 * n) % 10 = 0 /\ 7 * n >= 20
             /\ 2 * n > 5 * Pow2Below((7 * n) \div 10, 1)
    THEN ((7 * n) \div 10) - 1
    ELSE IF k >= 1 THEN (n * k) \div 10
    ELSE IF k = 0 THEN 0
    ELSE 0 - ((n * (0 - k)) \div 10)

\* int(float(h) * (cw / float(w))) of _compress_gif: the quotient cw/w and
\* the product are each rounded to a double.  Where h*cw/w is not an integer
\* the result is its floor; where it is an integer q and cw # w the two
\* roundings may leave the product just below q, and the result is q or q-1.
GifHeights(h, cw, w) ==
    LET q == (h * cw) \div w IN
    IF (h * cw) % w = 0 /\ cw # w /\ q >= 1 THEN {q, q - 1} ELSE {q}

\* ------------------------------------------------------- compress_to_size
\* Mutation of UnderBudget: a strict comparison, under which a buffer of
\* exactly target_size bytes is recompressed.
UnderBudgetStrict(size, target) == size < target

\* "if current_size <= target_size"
UnderBudget(size, target) == size <= target

\* "format = original_format.upper()" or "img.format if img.format else 'JPEG'"
DetermineFormat(orig, b) == IF orig # "NONE" THEN orig ELSE b.fmt

\* The label of the helper that handles a format.
Dispatch(f) == CASE f = "GIF" -> "gif"
                 [] f = "PNG" -> "png"
                 [] OTHER     -> "jpeg"

\* The initial state of a compress_to_size call: any caller buffer, any
\* positive budget, any original_format.
CompressInit ==
    /\ \E f \in Formats : \E m \in ModesOf(f) : \E w \in Widths :
       \E h \in Heights : \E s \in Sizes :
           buffer = CallerBuffer(f, m, w, h, s)
    /\ target_size \in Sizes
    /\ original_format \in OriginalFormats
    /\ pc = "call"
    /\ format = "none"
    /\ img = NoImage
    /\ output = NoBuffer
    /\ result = NoBuffer
    /\ qi = 1
    /\ scale = StartScale
    /\ current_width = 0
    /\ colors = 0
    /\ encodes = <<>>
    /\ nConvert = 0
    /\ nDecode = 0

\* compress_to_size, the buffer fits: "return buffer".
ReturnUnchanged ==
    /\ pc = "call"
    /\ UnderBudget(buffer.size, target_size)
    /\ result' = buffer
    /\ pc' = "returned"
    /\ UNCHANGED <<buffer, target_size, original_format, format, img, output,
                   qi, scale, current_width, colors, encodes, nConvert, nDecode>>
    /\ UNCHANGED <<wvars, gvars>>

\* compress_to_size, the buffer is over budget: Image.open, the format, and
\* the call of the helper of that format.
OpenAndDispatch ==
    /\ pc = "call"
    /\ ~UnderBudget(buffer.size, target_size)
    /\ img' = [mode |-> buffer.mode, w |-> buffer.w, h |-> buffer.h]
    /\ nDecode' = nDecode + 1
    /\ format' = DetermineFormat(original_format, buffer)
    /\ pc' = Dispatch(format')
    /\ UNCHANGED <<buffer, target_size, original_format, output, result,
                   qi, scale, current_width, colors, encodes, nConvert>>
    /\ UNCHANGED <<wvars, gvars>>

\* ---------------------------------------------------- _convert_png_to_jpeg
\* Mutation of PngFlattenMode: only the RGBA branch yields RGB, a palette
\* image is passed on unconverted.
PngFlattenModeAlphaOnly(m) == IF m = "RGBA" THEN "RGB" ELSE m

\* The mode of img_rgb: RGBA is pasted on a white RGB image, P and the rest
\* are converted to RGB.
PngFlattenMode(m) == "RGB"

\* _convert_png_to_jpeg up to its call of _compress_jpeg.
ConvertPngToJpeg ==
    /\ pc = "png"
    /\ img' = [img EXCEPT !.mode = PngFlattenMode(img.mode)]
    /\ nConvert' = nConvert + 1
    /\ pc' = "jpeg"
    /\ UNCHANGED <<buffer, target_size, original_format, format, output, result,
                   qi, scale, current_width, colors, encodes, nDecode>>
    /\ UNCHANGED <<wvars, gvars>>

\* ----------------------------------------------------------- _compress_jpeg
\* "if img.mode != 'RGB': img = img.convert('RGB')", then the preset loop
\* starts.
CompressJpegEnter ==
    /\ pc = "jpeg"
    /\ IF img.mode # "RGB"
       THEN img' = [img EXCEPT !.mode = "RGB"] /\ nConvert' = nConvert + 1
       ELSE UNCHANGED <<img, nConvert>>
    /\ qi' = 1
    /\ pc' = "presets"
    /\ UNCHANGED <<buffer, target_size, original_format, format, output, result,
                   scale, current_width, colors, encodes, nDecode>>
    /\ UNCHANGED <<wvars, gvars>>

\* "if output.tell() < target_size" of the preset loop
PresetFits(size, target) == size < target

\* One iteration of "for quality in [85, 55, 30]": encode at the preset,
\* return if it fits, else go on to the next preset or, after the last one,
\* to the resize loop with scale = 0.7.
JpegPreset ==
    /\ pc = "presets"
    /\ \E s \in Sizes :
         LET out == Encoded("JPEG", img.mode, Presets[qi], 0, img.w, img.h, s) IN
         /\ output' = out
         /\ encodes' = Append(encodes, Params(out))
         /\ IF PresetFits(s, target_size)
            THEN /\ pc' = "returned"
                 /\ result' = out
                 /\ UNCHANGED <<qi, scale>>
            ELSE IF qi < Len(Presets)
            THEN /\ pc' = "presets"
                 /\ qi' = qi + 1
                 /\ UNCHANGED <<result, scale>>
            ELSE /\ pc' = "resize"
                 /\ scale' = StartScale
                 /\ UNCHANGED <<result, qi>>
    /\ UNCHANGED <<buffer, target_size, original_format, format, img,
                   current_width, colors, nConvert, nDecode>>
    /\ UNCHANGED <<wvars, gvars>>

\* Mutation of ResizeNeeded: the loop gives up one byte above the budget.
ResizeNeededLoose(size, target) == size > target + 1

\* "while output.tell() > target_size"
ResizeNeeded(size, target) == size > target

\* The resize loop ends: "output.seek(0); return output".
JpegResizeReturn ==
    /\ pc = "resize"
    /\ ~ResizeNeeded(output.size, target_size)
    /\ result' = output
    /\ pc' = "returned"
    /\ UNCHANGED <<buffer, target_size, original_format, format, img, output,
                   qi, scale, current_width, colors, encodes, nConvert, nDecode>>
    /\ UNCHANGED <<wvars, gvars>>

\* "new_size = (int(img.width * scale), int(img.height * scale))"
NewSize(im, k) == [w |-> IntScale(im.w, k), h |-> IntScale(im.h, k)]

\* Image.resize rejects a size with a side below 1 ("height and width must
\* be > 0").
ResizeRejects(sz) == sz.w < 1 \/ sz.h < 1

\* One iteration of the resize loop: resize img, encode at quality 50,
\* lower the scale by 0.1.
JpegResizeIter ==
    /\ pc = "resize"
    /\ ResizeNeeded(output.size, target_size)
    /\ ~ResizeRejects(NewSize(img, scale))
    /\ img' = [img EXCEPT !.w = NewSize(img, scale).w, !.h = NewSize(img, scale).h]
    /\ \E s \in Sizes :
         /\ output' = Encoded("JPEG", img.mode, ResizeQuality, 0, img'.w, img'.h, s)
         /\ encodes' = Append(encodes, Params(output'))
    /\ scale' = scale - ScaleStep
    /\ UNCHANGED <<buffer, target_size, original_format, pc, format, result,
                   qi, current_width, colors, nConvert, nDecode>>
    /\ UNCHANGED <<wvars, gvars>>

\* An iteration of the resize loop whose new size has a side of 0: img.resize
\* raises ValueError, which nothing catches.
JpegResizeRaise ==
    /\ pc = "resize"
    /\ ResizeNeeded(output.size, target_size)
    /\ ResizeRejects(NewSize(img, scale))
    /\ pc' = "raised"
    /\ UNCHANGED <<buffer, target_size, original_format, format, img, output,
                   result, qi, scale, current_width, colors, encodes, nConvert,
                   nDecode>>
    /\ UNCHANGED <<wvars, gvars>>

\* ------------------------------------------------------------ _compress_gif
\* "current_width = min(img.width, 800)"
GifStartWidth(w) == Min(w, GifMaxWidth)

\* "current_width = min(img.width, 800); colors = 256", before "while True".
CompressGifEnter ==
    /\ pc = "gif"
    /\ current_width' = GifStartWidth(img.w)
    /\ colors' = GifStartColors
    /\ pc' = "gifloop"
    /\ UNCHANGED <<buffer, target_size, original_format, format, img, output,
                   result, qi, scale, encodes, nConvert, nDecode>>
    /\ UNCHANGED <<wvars, gvars>>

\* "if final_size <= target_size"
GifFits(size, target) == size <= target

\* Mutation of GifStep: the width is lowered together with the colors.
GifStepBoth(c, w) ==
    IF c > GifColorFloor
    THEN [colors |-> c \div 2,
          width |-> IF w > GifWidthFloor THEN w - GifWidthStep ELSE w,
          stop |-> FALSE]
    ELSE IF w > GifWidthFloor
    THEN [colors |-> c, width |-> w - GifWidthStep, stop |-> FALSE]
    ELSE [colors |-> c, width |-> w, stop |-> TRUE]

\* Mutation of GifStep: the width is lowered before the colors.
GifStepWidthFirst(c, w) ==
    IF w > GifWidthFloor
    THEN [colors |-> c, width |-> w - GifWidthStep, stop |-> FALSE]
    ELSE IF c > GifColorFloor
    THEN [colors |-> c \div 2, width |-> w, stop |-> FALSE]
    ELSE [colors |-> c, width |-> w, stop |-> TRUE]

\* Mutation of GifStep: the ladder stops at the color floor, whatever the
\* width.
GifStepStopAtColorFloor(c, w) ==
    IF c > GifColorFloor
    THEN [colors |-> c \div 2, width |-> w, stop |-> FALSE]
    ELSE [colors |-> c, width |-> w, stop |-> TRUE]

\* Mutation of GifStep: the colors are halved once more, at the floor itself.
GifStepBelowColorFloor(c, w) ==
    IF c >= GifColorFloor
    THEN [colors |-> c \div 2, width |-> w, stop |-> FALSE]
    ELSE IF w > GifWidthFloor
    THEN [colors |-> c, width |-> w - GifWidthStep, stop |-> FALSE]
    ELSE [colors |-> c, width |-> w, stop |-> TRUE]

\* The end of an iteration that missed the budget: halve the colors while
\* they are above 64, else take 100 off the width while it is above 200,
\* else stop (return the output).
GifStep(c, w) ==
    IF c > GifColorFloor
    THEN [colors |-> c \div 2, width |-> w, stop |-> FALSE]
    ELSE IF w > GifWidthFloor
    THEN [colors |-> c, width |-> w - GifWidthStep, stop |-> FALSE]
    ELSE [colors |-> c, width |-> w, stop |-> TRUE]

\* One iteration of "while True" whose frames resize: every frame is resized
\* to (current_width, nh) and quantized to `colors` colors, the sequence is
\* encoded; the output is returned if it fits or if GifStep stops, else the
\* parameters are lowered for the next iteration.
GifIter ==
    /\ pc = "gifloop"
    /\ \E nh \in GifHeights(img.h, current_width, img.w) : \E s \in Sizes :
         LET out == Encoded("GIF", "P", 0, colors, current_width, nh, s)
             nx  == GifStep(colors, current_width) IN
         /\ ~ResizeRejects([w |-> current_width, h |-> nh])
         /\ output' = out
         /\ encodes' = Append(encodes, Params(out))
         /\ IF GifFits(s, target_size) \/ nx.stop
            THEN /\ pc' = "returned"
                 /\ result' = out
                 /\ UNCHANGED <<colors, current_width>>
            ELSE /\ pc' = "gifloop"
                 /\ colors' = nx.colors
                 /\ current_width' = nx.width
                 /\ UNCHANGED result
    /\ UNCHANGED <<buffer, target_size, original_format, format, img,
                   qi, scale, nConvert, nDecode>>
    /\ UNCHANGED <<wvars, gvars>>

\* An iteration whose new height is 0: frame.resize raises ValueError.
GifIterRaise ==
    /\ pc = "gifloop"
    /\ \E nh \in GifHeights(img.h, current_width, img.w) :
         ResizeRejects([w |-> current_width, h |-> nh])
    /\ pc' = "raised"
    /\ UNCHANGED <<buffer, target_size, original_format, format, img, output,
                   result, qi, scale, current_width, colors, encodes, nConvert,
                   nDecode>>
    /\ UNCHANGED <<wvars, gvars>>

\* ------------------------------------------------- the compressor's machine
WrapIdle ==
    /\ text = <<>>
    /\ max_width = 0
    /\ words = <<>>
    /\ i = 0
    /\ line = <<>>
    /\ lines = <<>>
    /\ wpc = "idle"
    /\ wrapped = <<>>

\* No image, no optional value (None), an optional value.
NoPicture == [id |-> 0, format |-> "none", mode |-> "none", n_frames |-> 0,
              w |-> 0, h |-> 0, info |-> <<>>]
None == <<>>
Some(v) == <<v>>
\* No public call made, nothing returned.
NoCall == [api |-> "none", arg |-> "none", max_size |-> 0]
NoReturn == [kind |-> "none", where |-> "none", ext |-> "none",
             encoding |-> "none", size |-> 0]

CaptionIdle ==
    /\ ctor = [image |-> NoPicture]
    /\ self = [image |-> NoPicture]
    /\ gpc = "idle"
    /\ call = NoCall
    /\ processed = <<>>
    /\ canvas = [w |-> 0]
    /\ sequence = NoPicture
    /\ fk = 0
    /\ frames = <<>>
    /\ durations = <<>>
    /\ original_image = NoPicture
    /\ original_size = <<0, 0>>
    /\ outbuf = NoBuffer
    /\ ret = NoReturn

Init == CompressInit /\ WrapIdle /\ CaptionIdle

Next ==
    \/ ReturnUnchanged
    \/ OpenAndDispatch
    \/ ConvertPngToJpeg
    \/ CompressJpegEnter
    \/ JpegPreset
    \/ JpegResizeReturn
    \/ JpegResizeIter
    \/ JpegResizeRaise
    \/ CompressGifEnter
    \/ GifIter
    \/ GifIterRaise

Spec == Init /\ [][Next]_vars

\* ------------------------------------------------------------------ claims
Last(sq) == sq[Len(sq)]

\* C1: a compress_to_size call whose buffer is no larger than target_size
\* returns that very buffer, for every original_format, and neither opens
\* (decodes) it nor encodes anything.
C1_UnderBudgetReturnsSameBuffer ==
    (pc = "returned" /\ buffer.size <= target_size)
        => /\ result = buffer
           /\ nDecode = 0
           /\ nConvert = 0
           /\ encodes = <<>>

\* C1's case: a buffer of exactly target_size bytes has been returned.
C1_Witness ==
    /\ pc = "returned"
    /\ buffer.size = target_size
    /\ original_format = "PNG"
    /\ result = buffer

\* C2: the compressor never raises on a budget miss, stated for the JPEG
\* ladder (which an over-budget PNG takes too): no call on that path ends in
\* an exception, and the resize loop never starts an iteration whose new
\* size has a zero or negative width or height.
C2_NeverRaises ==
    /\ (format \in {"JPEG", "PNG"}) => pc # "raised"
    /\ (pc = "resize" /\ output.size > target_size)
           => (NewSize(img, scale).w >= 1 /\ NewSize(img, scale).h >= 1)

\* C3: from one encode of the JPEG ladder to the next, the quality, the width
\* and the height never increase.
C3_JpegParamsNeverIncrease ==
    \A j \in 1..(Len(encodes) - 1) :
        (encodes[j].fmt = "JPEG" /\ encodes[j + 1].fmt = "JPEG")
            => /\ encodes[j + 1].quality <= encodes[j].quality
               /\ encodes[j + 1].w <= encodes[j].w
               /\ encodes[j + 1].h <= encodes[j].h

\* C4: the JPEG ladder tries 85, 55, 30 in that order and stops at the first
\* preset whose encoding is within the budget (size <= budget): the preset
\* loop never goes on to a further preset after such an encoding.
C4_StopsAtFirstPresetWithinBudget ==
    /\ \A j \in 1..Min(Len(encodes), Len(Presets)) :
           encodes[j].fmt = "JPEG" => encodes[j].quality = Presets[j]
    /\ (pc = "presets" /\ encodes # <<>>) => output.size > target_size

\* C5: in the GIF ladder the width and the color count never increase, and
\* each iteration that misses the budget and does not return lowers exactly
\* one of them (colors halved, or width reduced by 100), the other unchanged.
C5_GifLowersExactlyOne ==
    /\ \A j \in 1..(Len(encodes) - 1) :
           (encodes[j].fmt = "GIF" /\ encodes[j + 1].fmt = "GIF")
               => /\ encodes[j + 1].w <= encodes[j].w
                  /\ encodes[j + 1].colors <= encodes[j].colors
    /\ (pc = "gifloop" /\ encodes # <<>>)
           => \/ /\ 2 * colors = Last(encodes).colors
                 /\ current_width = Last(encodes).w
              \/ /\ current_width = Last(encodes).w - 100
                 /\ colors = Last(encodes).colors

\* C5's case: the ladder has lowered the colors and then the width.
C5_Witness ==
    /\ pc = "gifloop"
    /\ Len(encodes) >= 4
    /\ colors < encodes[1].colors
    /\ current_width < encodes[1].w

\* C6: the GIF ladder's color counts are 256, 128, 64 in that order; every
\* iteration with more than 64 colors runs at the initial width
\* min(source width, 800); an iteration at a lower width comes only after an
\* iteration at 64 colors and the initial width (which missed the budget).
C6_GifColorsBeforeWidth ==
    \A j \in 1..Len(encodes) :
        encodes[j].fmt = "GIF"
            => /\ encodes[j].colors
                     = (IF j = 1 THEN 256 ELSE IF j = 2 THEN 128 ELSE 64)
               /\ encodes[j].colors > 64 => encodes[j].w = Min(buffer.w, 800)
               /\ encodes[j].w <= Min(buffer.w, 800)
               /\ encodes[j].w < Min(buffer.w, 800)
                     => \E k \in 1..(j - 1) :
                            /\ encodes[k].colors = 64
                            /\ encodes[k].w = Min(buffer.w, 800)

\* C6's case: an iteration has run at a width below the initial one.
C6_Witness ==
    /\ format = "GIF"
    /\ encodes # <<>>
    /\ Last(encodes).w < Min(buffer.w, 800)
    /\ Last(encodes).colors = 64

\* C7: no width decrement of the GIF ladder gives a working width below 200.
C7_GifWidthFloor ==
    (pc \in {"gifloop", "returned", "raised"} /\ format = "GIF"
       /\ current_width < Min(buffer.w, 800))
        => current_width >= 200

\* C8: _compress_gif returns the encoding of the last iteration it ran, and
\* returns a buffer larger than the budget only from an iteration at 64
\* colors and a width of at most 200.
C8_GifOverBudgetOnlyAtFloors ==
    (pc = "returned" /\ format = "GIF")
        => /\ result = output
           /\ result.src = "encoder"
           /\ Params(result) = Last(encodes)
           /\ result.size > target_size
                 => (result.colors = 64 /\ result.w <= 200)

\* C8's case: a best-effort GIF, larger than the budget, has been returned.
C8_Witness ==
    /\ pc = "returned"
    /\ format = "GIF"
    /\ result.size > target_size
    /\ Len(encodes) >= 4

\* C9: an over-budget PNG is converted to RGB exactly once and then handled
\* by the JPEG ladder alone: every encode is a JPEG encode, the GIF ladder
\* never runs, and what is returned is a JPEG encoding.
C9_PngTranscodedOnce ==
    format = "PNG"
        => /\ nConvert <= 1
           /\ pc \notin {"gif", "gifloop"}
           /\ \A j \in 1..Len(encodes) : encodes[j].fmt = "JPEG"
           /\ pc \in {"jpeg", "presets", "resize", "returned", "raised"}
                 => (nConvert = 1 /\ img.mode = "RGB")
           /\ pc = "returned"
                 => (result.src = "encoder" /\ result.fmt = "JPEG")

\* C9's case: a palette PNG has gone through the presets and the resize loop
\* and has been returned.
C9_Witness ==
    /\ pc = "returned"
    /\ format = "PNG"
    /\ buffer.mode = "P"
    /\ Len(encodes) > Len(Presets)

\* ---------------------------------------------------------------- _wrap_text
\* Class constant WIDTH_PADDING.
WIDTH_PADDING == 10

\* Longest text, in characters, and widest max_width of the wrapper's inputs.
MaxLen == 5
MaxWidth == 16

\* Texts are sequences of characters; "a" is a narrow glyph, "W" a wide one.
Alphabet == {"a", "W", " "}
Texts == UNION {[1..n -> Alphabet] : n \in 0..MaxLen}

\* The advance of one character in the font.
CharWidth(c) == CASE c = "a" -> 1
                  [] c = "W" -> 5
                  [] c = " " -> 1
                  [] c = "n" -> 1
                  [] c = "\\" -> 1
                  [] OTHER   -> 0

\* _get_text_dimensions(text)[0]: bbox[2] - bbox[0] of font.getbbox(text),
\* the sum of the advances of the characters.
RECURSIVE TextWidth(_)
TextWidth(t) == IF t = <<>> THEN 0 ELSE CharWidth(Head(t)) + TextWidth(Tail(t))

\* str.split(sep): the pieces of t between the occurrences of sep, empty
\* pieces included; at least one piece.
RECURSIVE Split(_, _)
Split(t, sep) ==
    IF \A k \in 1..Len(t) : t[k] # sep
    THEN <<t>>
    ELSE LET k == CHOOSE k \in 1..Len(t) :
                      t[k] = sep /\ \A m \in 1..(k - 1) : t[m] # sep
         IN <<SubSeq(t, 1, k - 1)>> \o Split(SubSeq(t, k + 1, Len(t)), sep)

IsSpace(c) == c \in {" ", "\n", "\t"}

\* str.strip(): t without its leading and trailing whitespace.
RECURSIVE Strip(_)
Strip(t) ==
    IF t = <<>> THEN t
    ELSE IF IsSpace(Head(t)) THEN Strip(Tail(t))
    ELSE IF IsSpace(t[Len(t)]) THEN Strip(SubSeq(t, 1, Len(t) - 1))
    ELSE t

\* sep.join(ls)
RECURSIVE Join(_, _)
Join(ls, sep) ==
    IF ls = <<>> THEN <<>>
    ELSE IF Len(ls) = 1 THEN ls[1]
    ELSE ls[1] \o <<sep>> \o Join(Tail(ls), sep)

\* Mutation of Candidate: the word alone is measured, not the line with it.
CandidateWordOnly(ln, word) == word

\* The text the inner loop measures: "line + words[i]".
Candidate(ln, word) == ln \o word

\* The inner loop's test: the candidate is narrower than
\* max_width - WIDTH_PADDING.
Fits(ln, word, mw) == TextWidth(Candidate(ln, word)) < mw - WIDTH_PADDING

CompressIdle ==
    /\ buffer = NoBuffer
    /\ target_size = 0
    /\ original_format = "NONE"
    /\ pc = "idle"
    /\ format = "none"
    /\ img = NoImage
    /\ output = NoBuffer
    /\ result = NoBuffer
    /\ qi = 1
    /\ scale = StartScale
    /\ current_width = 0
    /\ colors = 0
    /\ encodes = <<>>
    /\ nConvert = 0
    /\ nDecode = 0

\* The initial state of a _wrap_text call: any text, any positive max_width.
WrapInit ==
    /\ text \in Texts
    /\ max_width \in 1..MaxWidth
    /\ words = <<>>
    /\ i = 0
    /\ line = <<>>
    /\ lines = <<>>
    /\ wpc = "call"
    /\ wrapped = <<>>

\* "lines = []; words = text.split(' '); i = 0" (indices from 1 here).
WrapStart ==
    /\ wpc = "call"
    /\ words' = Split(text, " ")
    /\ lines' = <<>>
    /\ i' = 1
    /\ wpc' = "outer"
    /\ UNCHANGED <<text, max_width, line, wrapped>>
    /\ UNCHANGED <<cvars, gvars>>

\* "while i < len(words): line = ''": a new line starts.
WrapOuter ==
    /\ wpc = "outer"
    /\ i <= Len(words)
    /\ line' = <<>>
    /\ wpc' = "inner"
    /\ UNCHANGED <<text, max_width, words, i, lines, wrapped>>
    /\ UNCHANGED <<cvars, gvars>>

\* One iteration of the inner loop: the next word fits and joins the line,
\* followed by a space.
WrapInner ==
    /\ wpc = "inner"
    /\ i <= Len(words)
    /\ Fits(line, words[i], max_width)
    /\ line' = line \o words[i] \o <<" ">>
    /\ i' = i + 1
    /\ UNCHANGED <<text, max_width, words, lines, wpc, wrapped>>
    /\ UNCHANGED <<cvars, gvars>>

\* Mutation of WrapEndLine: the empty line takes the next word whole but
\* i is not advanced past it.
WrapEndLineNoAdvance ==
    /\ wpc = "inner"
    /\ ~(i <= Len(words) /\ Fits(line, words[i], max_width))
    /\ IF line = <<>>
       THEN line' = words[i]
       ELSE UNCHANGED line
    /\ lines' = Append(lines, Strip(line'))
    /\ wpc' = "outer"
    /\ UNCHANGED <<text, max_width, words, i, wrapped>>
    /\ UNCHANGED <<cvars, gvars>>

\* The inner loop ends: an empty line takes the next word whole
\* ("if not line"), and the stripped line is appended to lines.
WrapEndLine ==
    /\ wpc = "inner"
    /\ ~(i <= Len(words) /\ Fits(line, words[i], max_width))
    /\ IF line = <<>>
       THEN /\ line' = words[i]
            /\ i' = i + 1
       ELSE UNCHANGED <<line, i>>
    /\ lines' = Append(lines, Strip(line'))
    /\ wpc' = "outer"
    /\ UNCHANGED <<text, max_width, words, wrapped>>
    /\ UNCHANGED <<cvars, gvars>>

\* The outer loop ends: "return '\n'.join(lines)".
WrapReturn ==
    /\ wpc = "outer"
    /\ ~(i <= Len(words))
    /\ wrapped' = Join(lines, "\n")
    /\ wpc' = "done"
    /\ UNCHANGED <<text, max_width, words, i, line, lines>>
    /\ UNCHANGED <<cvars, gvars>>

WrapNext ==
    \/ WrapStart
    \/ WrapOuter
    \/ WrapInner
    \/ WrapEndLine
    \/ WrapReturn

WrapSpecInit == CompressIdle /\ WrapInit /\ CaptionIdle

WrapSpec == WrapSpecInit /\ [][WrapNext]_vars

\* C10: every line _wrap_text returns is at most max_width - WIDTH_PADDING
\* wide, except a line that is one single word of the text whose own width
\* reaches or exceeds that limit.
C10_WrappedLinesWithinLimit ==
    wpc = "done"
        => \A j \in 1..Len(Split(wrapped, "\n")) :
               LET ln == Split(wrapped, "\n")[j] IN
               \/ TextWidth(ln) <= max_width - 10
               \/ /\ \E k \in 1..Len(Split(text, " ")) : ln = Split(text, " ")[k]
                  /\ TextWidth(ln) >= max_width - 10

\* C10's case: the text was wrapped into a line of several words within the
\* limit and a line holding a single word wider than the limit.
C10_Witness ==
    /\ wpc = "done"
    /\ max_width - 10 > 0
    /\ \E j \in 1..Len(lines) :
           /\ \E k \in 1..Len(lines[j]) : lines[j][k] = " "
           /\ TextWidth(lines[j]) <= max_width - 10
    /\ \E j \in 1..Len(lines) :
           /\ \A k \in 1..Len(lines[j]) : lines[j][k] # " "
           /\ TextWidth(lines[j]) > max_width - 10

\* The number of lowering steps the GIF ladder has left at c colors and
\* width w: halvings down to 64, then decrements of 100 while above 200.
GifRank(c, w) ==
    (IF c > 128 THEN 2 ELSE IF c > 64 THEN 1 ELSE 0)
      + (IF w > 200 THEN (w - 200 + 99) \div 100 ELSE 0)

\* C19: _compress_gif terminates within 9 encode iterations: the iterations
\* run plus the lowering steps still possible never exceed 9, and each
\* iteration that does not return has strictly lowered the colors or the
\* width.
C19_GifAtMostNineIterations ==
    format = "GIF"
        => /\ Len(encodes) <= 9
           /\ pc = "gifloop"
                 => Len(encodes) + GifRank(colors, current_width) + 1 <= 9
           /\ (pc = "gifloop" /\ encodes # <<>>)
                 => \/ colors < Last(encodes).colors
                    \/ current_width < Last(encodes).w

\* C19's case: the ladder has run all 9 iterations and returned.
C19_Witness ==
    /\ pc = "returned"
    /\ format = "GIF"
    /\ Len(encodes) = 9

\* C20: whenever _compress_jpeg returns, what it returns is no larger than
\* target_size.
C20_JpegReturnsWithinBudget ==
    (pc = "returned" /\ format \in {"JPEG", "PNG"})
        => (result.src = "encoder" /\ result.size <= target_size)

\* C20's case: the resize loop has run and returned an encoding of exactly
\* target_size bytes.
C20_Witness ==
    /\ pc = "returned"
    /\ format = "JPEG"
    /\ Len(encodes) > Len(Presets)
    /\ result.size = target_size

\* -------------------------------------------------------------- the Caption
\* _wrap_text as a function of its arguments: the inner loop from word i
\* with the line built so far, and the outer loop from word i with the
\* lines built so far.
RECURSIVE WrapInnerLoop(_, _, _, _)
WrapInnerLoop(ws, k, ln, mw) ==
    IF k <= Len(ws) /\ Fits(ln, ws[k], mw)
    THEN WrapInnerLoop(ws, k + 1, ln \o ws[k] \o <<" ">>, mw)
    ELSE [line |-> ln, i |-> k]

RECURSIVE WrapOuterLoop(_, _, _, _)
WrapOuterLoop(ws, k, ls, mw) ==
    IF ~(k <= Len(ws)) THEN ls
    ELSE LET r == WrapInnerLoop(ws, k, <<>>, mw)
             ln == IF r.line = <<>> THEN ws[r.i] ELSE r.line
             nk == IF r.line = <<>> THEN r.i + 1 ELSE r.i
         IN WrapOuterLoop(ws, nk, Append(ls, Strip(ln)), mw)

WrapText(t, mw) == Join(WrapOuterLoop(Split(t, " "), 1, <<>>, mw), "\n")

\* str.replace("\\n", "\n"): every backslash followed by n becomes a newline,
\* left to right.
RECURSIVE ReplaceBackslashN(_)
ReplaceBackslashN(t) ==
    IF Len(t) < 2 THEN t
    ELSE IF t[1] = "\\" /\ t[2] = "n"
    THEN <<"\n">> \o ReplaceBackslashN(SubSeq(t, 3, Len(t)))
    ELSE <<t[1]>> \o ReplaceBackslashN(Tail(t))

\* Mutation of ProcessText: the text is wrapped whole, not split on "\n".
ProcessTextNoSplit(t, w) == WrapText(t, w)

\* _process_text, and the same expression of generate for the bottom text:
\* "\n".join([self._wrap_text(line, self.width) for line in t.split("\n")])
ProcessText(t, w) ==
    LET segs == Split(t, "\n") IN
    Join([k \in 1..Len(segs) |-> WrapText(segs[k], w)], "\n")

\* A decoded still image, and a decoded GIF whose frames declare the
\* durations of info (None: no duration).
StillPicture(f, m, w, h) ==
    [id |-> 0, format |-> f, mode |-> m, n_frames |-> 1, w |-> w, h |-> h,
     info |-> <<None>>]
GifPicture(w, h, info) ==
    [id |-> 0, format |-> "GIF", mode |-> "P", n_frames |-> Len(info),
     w |-> w, h |-> h, info |-> info]

\* The constructor's arguments: the opened image, text, bottom_text (None or
\* a text), bottom_text_box, the font colors (None or a color), italic, bold.
CtorArgs(im, t, bt, box, tc, bc, it, bd) ==
    [image |-> im, text |-> t, bottom_text |-> bt, bottom_text_box |-> box,
     top_font_color |-> tc, bottom_font_color |-> bc, italic |-> it, bold |-> bd]

\* "x if x is not None else (0, 0, 0)": black is (0, 0, 0).
ColorOrBlack(c) == IF c # None THEN c[1] ELSE "black"

\* "bottom_text.replace("\\n", "\n") if bottom_text else None"
BottomTextField(bt) ==
    IF bt # None /\ bt[1] # <<>> THEN Some(ReplaceBackslashN(bt[1])) ELSE None

\* Caption.__init__
Construct ==
    /\ gpc = "new"
    /\ self' = [image |-> ctor.image,
                text |-> ReplaceBackslashN(ctor.text),
                bottom_text |-> BottomTextField(ctor.bottom_text),
                bottom_text_box |-> ctor.bottom_text_box,
                italic |-> ctor.italic,
                bold |-> ctor.bold,
                width |-> ctor.image.w,
                height |-> ctor.image.h,
                top_font_color |-> ColorOrBlack(ctor.top_font_color),
                bottom_font_color |-> ColorOrBlack(ctor.bottom_font_color)]
    /\ gpc' = "ready"
    /\ UNCHANGED <<ctor, call, processed, canvas, sequence, fk, frames,
                   durations, original_image, original_size, outbuf, ret>>
    /\ UNCHANGED <<cvars, wvars>>

\* A call of _process_text on the constructed object.
ProcessTextCall ==
    /\ gpc = "ready"
    /\ processed' = ProcessText(self.text, self.width)
    /\ gpc' = "processed"
    /\ UNCHANGED <<ctor, self, call, canvas, sequence, fk, frames, durations,
                   original_image, original_size, outbuf, ret>>
    /\ UNCHANGED <<cvars, wvars>>

\* Longest constructor text of the text-processing machine, its characters
\* and the image widths.
MaxRaw == 5
RawAlphabet == {"a", " ", "\n", "\\", "n"}
RawTexts == UNION {[1..n -> RawAlphabet] : n \in 0..MaxRaw}
ProcWidths == {13, 16}

\* A new, unconstructed Caption with arguments c.
CaptionNew(c) ==
    /\ ctor = c
    /\ self = [image |-> NoPicture]
    /\ gpc = "new"
    /\ call = NoCall
    /\ processed = <<>>
    /\ canvas = [w |-> 0]
    /\ sequence = NoPicture
    /\ fk = 0
    /\ frames = <<>>
    /\ durations = <<>>
    /\ original_image = NoPicture
    /\ original_size = <<0, 0>>
    /\ outbuf = NoBuffer
    /\ ret = NoReturn

ProcInit ==
    /\ CompressIdle
    /\ WrapIdle
    /\ \E t \in RawTexts : \E w \in ProcWidths :
           CaptionNew(CtorArgs(StillPicture("JPEG", "RGB", w, 40), t, None,
                               TRUE, None, None, FALSE, FALSE))

ProcNext ==
    \/ Construct
    \/ ProcessTextCall

ProcSpec == ProcInit /\ [][ProcNext]_vars

\* The non-empty words of a text, and of a sequence of lines, in order.
WordsOf(t) == SelectSeq(Split(t, " "), LAMBDA wd : wd # <<>>)
RECURSIVE WordsOfLines(_)
WordsOfLines(ls) ==
    IF ls = <<>> THEN <<>> ELSE WordsOf(Head(ls)) \o WordsOfLines(Tail(ls))

\* The segments of a constructor text between its hard breaks: newlines and
\* backslash-n pairs.  cur is the segment being read.
RECURSIVE HardSegments(_, _)
HardSegments(t, cur) ==
    IF t = <<>> THEN <<cur>>
    ELSE IF t[1] = "\n" THEN <<cur>> \o HardSegments(Tail(t), <<>>)
    ELSE IF Len(t) >= 2 /\ t[1] = "\\" /\ t[2] = "n"
    THEN <<cur>> \o HardSegments(SubSeq(t, 3, Len(t)), <<>>)
    ELSE HardSegments(Tail(t), Append(cur, t[1]))

\* The lines ls fall into consecutive non-empty groups, one per segment, in
\* the segments' order, each group holding exactly the words of its segment.
RECURSIVE LinesFollowSegments(_, _)
LinesFollowSegments(segs, ls) ==
    IF segs = <<>> THEN ls = <<>>
    ELSE \E n \in 1..Len(ls) :
             /\ WordsOfLines(SubSeq(ls, 1, n)) = WordsOf(Head(segs))
             /\ LinesFollowSegments(Tail(segs), SubSeq(ls, n + 1, Len(ls)))

\* C11: wrapping keeps the authored hard breaks (newlines, and backslash-n
\* pairs of the constructor text): the output lines fall into one non-empty
\* group per hard-break segment, in order, no line holding words of two
\* segments, so there are at least as many lines as segments.
C11_HardBreaksPreserved ==
    gpc = "processed"
        => LET segs == HardSegments(ctor.text, <<>>)
               out  == Split(processed, "\n") IN
           /\ Len(out) >= Len(segs)
           /\ LinesFollowSegments(segs, out)

\* C11's case: a text ending in a backslash-n pair, whose first segment
\* wraps into two lines.
C11_Witness ==
    /\ gpc = "processed"
    /\ ctor.text = <<"a", " ", "a", "\\", "n">>
    /\ Split(processed, "\n") = << <<"a">>, <<"a">>, <<>> >>

\* -------------------------------------------------------------- generate
TOP_PADDING == 10
BOTTOM_PADDING == 10

\* Height of a glyph's bounding box in the font; the height of a line is the
\* height of the box around its glyphs (_get_text_dimensions), 0 when it has
\* no ink.
GlyphHeight(c) == CASE c = "a" -> 5
                    [] c = "W" -> 7
                    [] c = "n" -> 5
                    [] c = "\\" -> 7
                    [] OTHER   -> 0
RECURSIVE LineHeight(_)
LineHeight(t) ==
    IF t = <<>> THEN 0
    ELSE LET r == LineHeight(Tail(t)) IN
         IF GlyphHeight(Head(t)) > r THEN GlyphHeight(Head(t)) ELSE r

\* _calculate_text_height: int(len(lines) * (line_height * 1.2) + 10 + 10).
\* For the line heights of GlyphHeight the float product is the exact one.
CalculateTextHeight(t) ==
    LET line_list == Split(t, "\n") IN
    IF line_list = <<>> THEN 0
    ELSE (Len(line_list) * LineHeight(line_list[1]) * 12) \div 10
            + TOP_PADDING + BOTTOM_PADDING

\* Truth value of an optional text: None and '' are false.
Truthy(bt) == bt # None /\ bt[1] # <<>>

\* Mutation of TotalHeight: the bottom block always extends the canvas.
TotalHeightAlwaysBottom(box, has_bottom, top_h, h, bottom_h) ==
    top_h + h + bottom_h

\* total_height of generate, by bottom_text_box and whether bottom text is set.
TotalHeight(box, has_bottom, top_h, h, bottom_h) ==
    IF box \/ ~has_bottom THEN top_h + h + bottom_h ELSE top_h + h

\* _draw_text_with_style: the text is drawn with fill, once, or four times
\* with offsets when bold.
DrawTextWithStyle(s, block, txt, fill) ==
    [block |-> block, text |-> txt, fill |-> fill,
     style |-> IF s.bold /\ s.italic THEN "bold_italic"
               ELSE IF s.bold THEN "bold"
               ELSE IF s.italic THEN "italic" ELSE "normal",
     strokes |-> IF s.bold THEN 4 ELSE 1]

\* generate: the canvas it returns, with the heights it computed, where the
\* frame is pasted and the text it drew.
Generate(s) ==
    LET wrapped_top_text == ProcessText(s.text, s.width)
        top_text_height == CalculateTextHeight(wrapped_top_text)
        has_bottom == Truthy(s.bottom_text)
        wrapped_bottom_text ==
            IF has_bottom THEN Some(ProcessText(s.bottom_text[1], s.width))
            ELSE None
        bottom_text_height ==
            IF has_bottom THEN CalculateTextHeight(wrapped_bottom_text[1]) ELSE 0
        top_draw == DrawTextWithStyle(s, "top", wrapped_top_text, s.top_font_color)
        bottom_draws ==
            IF has_bottom /\ Truthy(wrapped_bottom_text)
            THEN IF s.bottom_text_box
                 THEN <<DrawTextWithStyle(s, "bottom", wrapped_bottom_text[1],
                                          s.top_font_color)>>
                 ELSE <<DrawTextWithStyle(s, "bottom", wrapped_bottom_text[1],
                                          s.bottom_font_color)>>
            ELSE <<>>
    IN [w |-> s.width,
        h |-> TotalHeight(s.bottom_text_box, has_bottom, top_text_height,
                          s.height, bottom_text_height),
        paste_y |-> top_text_height,
        top_h |-> top_text_height,
        bottom_h |-> bottom_text_height,
        draws |-> <<top_draw>> \o bottom_draws]

\* A call of generate on the constructed object.
GenerateCall ==
    /\ gpc = "ready"
    /\ canvas' = Generate(self)
    /\ gpc' = "generated"
    /\ UNCHANGED <<ctor, self, call, processed, sequence, fk, frames,
                   durations, original_image, original_size, outbuf, ret>>
    /\ UNCHANGED <<cvars, wvars>>

\* Captions of the generate machine.
GenTexts == {<<>>, <<"a">>, <<"a", " ", "a">>, <<"W", "\n", "a">>}
GenBottomTexts == {None, Some(<<>>), Some(<<" ">>), Some(<<"a">>),
                   Some(<<"a", " ", "W">>)}
GenColors == {None, Some("red"), Some("blue")}
GenHeights == {1, 40}

GenInit ==
    /\ CompressIdle
    /\ WrapIdle
    /\ \E t \in GenTexts : \E bt \in GenBottomTexts : \E box \in BOOLEAN :
       \E tc \in GenColors : \E bc \in GenColors :
       \E it \in BOOLEAN : \E bd \in BOOLEAN :
       \E w \in ProcWidths : \E h \in GenHeights :
           CaptionNew(CtorArgs(StillPicture("JPEG", "RGB", w, h), t, bt, box,
                               tc, bc, it, bd))

GenNext ==
    \/ Construct
    \/ GenerateCall

GenSpec == GenInit /\ [][GenNext]_vars

\* C12: empty top text gives a zero-height top block, so the canvas is the
\* frame plus any boxed bottom block; empty or absent bottom text adds no
\* bottom block.
C12_EmptyTextAddsNoBlock ==
    gpc = "generated"
        => /\ ctor.text = <<>>
                => /\ CalculateTextHeight(ProcessText(self.text, self.width)) = 0
                   /\ canvas.paste_y = 0
                   /\ canvas.h = ctor.image.h
                        + (IF Truthy(ctor.bottom_text) /\ ctor.bottom_text_box
                           THEN canvas.bottom_h ELSE 0)
           /\ ~Truthy(ctor.bottom_text) => canvas.h = canvas.paste_y + ctor.image.h

\* C13: the canvas is as wide as the source frame, its height is the top
\* block plus the frame plus the bottom block when bottom text is present and
\* boxed, and the frame is pasted right under the top block.
C13_CanvasGeometry ==
    gpc = "generated"
        => LET top == CalculateTextHeight(ProcessText(self.text, self.width))
               bot == IF Truthy(ctor.bottom_text) /\ ctor.bottom_text_box
                      THEN CalculateTextHeight(
                               ProcessText(self.bottom_text[1], self.width))
                      ELSE 0
           IN /\ canvas.w = ctor.image.w
              /\ canvas.h = top + ctor.image.h + bot
              /\ canvas.paste_y = top

\* C13's case: overlay bottom text over a frame with a two-line top block.
C13_Witness ==
    /\ gpc = "generated"
    /\ Truthy(ctor.bottom_text)
    /\ ~ctor.bottom_text_box
    /\ canvas.bottom_h > 0
    /\ canvas.paste_y > TOP_PADDING + BOTTOM_PADDING
    /\ canvas.h = canvas.paste_y + ctor.image.h

\* C17: top text is drawn in the configured top font color and bottom text in
\* the configured bottom font color, boxed or overlay, in every style.
C17_TextDrawnInItsColor ==
    gpc = "generated"
        => \A k \in 1..Len(canvas.draws) :
              LET d == canvas.draws[k] IN
              /\ d.block = "top" => d.fill = ColorOrBlack(ctor.top_font_color)
              /\ d.block = "bottom" => d.fill = ColorOrBlack(ctor.bottom_font_color)

\* ------------------------------------------- to_buffer, save, generate_gif
\* "frame.info.get('duration', 100)"
DefaultDuration == 100
\* Most frames of an animated source.
MaxFrames == 3

\* Mutation of FrameDuration: a frame without a duration gets 0.
FrameDurationZero(info) == IF info # None THEN info[1] ELSE 0

\* The duration appended for a frame whose info declares info (None: no
\* 'duration' key).
FrameDuration(info) == IF info # None THEN info[1] ELSE DefaultDuration

\* _is_animated_gif: is_animated (more than one frame) and format 'GIF'.
IsAnimatedGif(im) == im.n_frames > 1 /\ im.format = "GIF"

\* frame.convert('RGB') at frame k of im: a new single-frame RGB image
\* without a format.
FrameRgb(im, k) ==
    [id |-> k, format |-> "none", mode |-> "RGB", n_frames |-> 1,
     w |-> im.w, h |-> im.h, info |-> <<>>]

\* str.upper() on the format names used.
Upper(f) == IF f = "png" THEN "PNG" ELSE f

\* The format the static branch encodes the captioned image in: to_buffer
\* by its format argument, save by the end of output_path.
StaticFormat(c) ==
    IF c.api = "to_buffer"
    THEN IF Upper(c.arg) = "PNG" THEN "PNG" ELSE "JPEG"
    ELSE IF c.arg = "png" THEN "PNG" ELSE "JPEG"

\* The extension that goes with the output: the ext of to_buffer, set in the
\* branch that made buffer b, or the end of save's output_path.
ApiExt(c, b) ==
    IF c.api = "save" THEN c.arg
    ELSE IF b.fmt = "GIF" THEN "gif"
    ELSE IF b.fmt = "PNG" THEN "png" ELSE "jpg"

\* The entry of to_buffer and save, called with arguments c: the test of
\* _is_animated_gif, and for an animated source the start of generate_gif.
EnterCall(c) ==
    /\ call' = c
    /\ IF IsAnimatedGif(self.image)
       THEN /\ gpc' = "gif_loop"
            /\ sequence' = self.image
            /\ fk' = 1
            /\ frames' = <<>>
            /\ durations' = <<>>
       ELSE /\ gpc' = "static"
            /\ UNCHANGED <<sequence, fk, frames, durations>>
    /\ UNCHANGED <<ctor, self, processed, canvas, original_image,
                   original_size, outbuf, ret>>
    /\ UNCHANGED <<cvars, wvars>>

\* The arguments of the public calls; max_size 0 stands for None.
BufferFormats == {"JPEG", "PNG", "png"}
PathExts == {"png", "jpg", "gif"}
MaxSizes == 0..MaxSize

CallToBuffer ==
    \E f \in BufferFormats : \E m \in MaxSizes :
        /\ gpc = "ready"
        /\ EnterCall([api |-> "to_buffer", arg |-> f, max_size |-> m])

CallSave ==
    \E e \in PathExts : \E m \in MaxSizes :
        /\ gpc = "ready"
        /\ EnterCall([api |-> "save", arg |-> e, max_size |-> m])

\* self after "self.image = frame_rgb; self.width, self.height = ...size".
WithFrame(s, frame_rgb) ==
    [s EXCEPT !.image = frame_rgb, !.width = frame_rgb.w, !.height = frame_rgb.h]

\* One iteration of generate_gif's loop over the frames.
GifFrame ==
    /\ gpc = "gif_loop"
    /\ fk <= sequence.n_frames
    /\ LET frame_rgb == FrameRgb(sequence, fk)
           captioned_frame == Generate(WithFrame(self, frame_rgb)) IN
       /\ original_image' = self.image
       /\ original_size' = <<self.width, self.height>>
       /\ self' = WithFrame(self, frame_rgb)
       /\ canvas' = captioned_frame
       /\ frames' = Append(frames, [src |-> fk, w |-> captioned_frame.w,
                                    h |-> captioned_frame.h])
       /\ durations' = Append(durations, FrameDuration(sequence.info[fk]))
    /\ fk' = fk + 1
    /\ UNCHANGED <<ctor, gpc, call, processed, sequence, outbuf, ret>>
    /\ UNCHANGED <<cvars, wvars>>

\* An iteration in which self.generate() raises: the error leaves
\* generate_gif, and to_buffer or save, at once.
GifFrameRaise ==
    /\ gpc = "gif_loop"
    /\ fk <= sequence.n_frames
    /\ original_image' = self.image
    /\ original_size' = <<self.width, self.height>>
    /\ self' = WithFrame(self, FrameRgb(sequence, fk))
    /\ ret' = [NoReturn EXCEPT !.kind = "raised", !.where = "generate_gif"]
    /\ gpc' = "failed"
    /\ UNCHANGED <<ctor, call, processed, canvas, sequence, fk, frames,
                   durations, outbuf>>
    /\ UNCHANGED <<cvars, wvars>>

\* After the loop: the restore from original_image and original_size, and
\* frames[0].save(format='GIF', save_all=True, duration=durations, ...).
GifSave ==
    /\ gpc = "gif_loop"
    /\ fk > sequence.n_frames
    /\ self' = [self EXCEPT !.image = original_image,
                            !.width = original_size[1],
                            !.height = original_size[2]]
    /\ \E s \in Sizes :
         outbuf' = CallerBuffer("GIF", "P", frames[1].w, frames[1].h, s)
    /\ gpc' = "encoded"
    /\ UNCHANGED <<ctor, call, processed, canvas, sequence, fk, frames,
                   durations, original_image, original_size, ret>>
    /\ UNCHANGED <<cvars, wvars>>

\* The static branch: generate, and the captioned image (always RGB) saved
\* as PNG or JPEG.
StaticEncode ==
    /\ gpc = "static"
    /\ canvas' = Generate(self)
    /\ \E s \in Sizes :
         outbuf' = CallerBuffer(StaticFormat(call), "RGB", canvas'.w, canvas'.h, s)
    /\ gpc' = "encoded"
    /\ UNCHANGED <<ctor, self, call, processed, sequence, fk, frames,
                   durations, original_image, original_size, ret>>
    /\ UNCHANGED <<cvars, wvars>>

\* "if max_size:" is false: the buffer is returned, or written, as it is.
ReturnDirect ==
    /\ gpc = "encoded"
    /\ call.max_size = 0
    /\ ret' = [kind |-> "returned", where |-> "none",
               ext |-> ApiExt(call, outbuf), encoding |-> outbuf.fmt,
               size |-> outbuf.size]
    /\ gpc' = "done"
    /\ UNCHANGED <<ctor, self, call, processed, canvas, sequence, fk, frames,
                   durations, original_image, original_size, outbuf>>
    /\ UNCHANGED <<cvars, wvars>>

\* "if max_size:" is true: compress_to_size(buffer, max_size, original_format)
\* with the format the buffer was saved in.
CallCompress ==
    /\ gpc = "encoded"
    /\ call.max_size # 0
    /\ buffer' = outbuf
    /\ target_size' = call.max_size
    /\ original_format' = outbuf.fmt
    /\ pc' = "call"
    /\ format' = "none"
    /\ img' = NoImage
    /\ output' = NoBuffer
    /\ result' = NoBuffer
    /\ qi' = 1
    /\ scale' = StartScale
    /\ current_width' = 0
    /\ colors' = 0
    /\ encodes' = <<>>
    /\ nConvert' = 0
    /\ nDecode' = 0
    /\ gpc' = "compressing"
    /\ UNCHANGED <<ctor, self, call, processed, canvas, sequence, fk, frames,
                   durations, original_image, original_size, outbuf, ret>>
    /\ UNCHANGED wvars

\* compress_to_size returned: to_buffer returns (buffer, ext), save writes
\* the buffer to output_path.
ReturnCompressed ==
    /\ gpc = "compressing"
    /\ pc = "returned"
    /\ ret' = [kind |-> "returned", where |-> "none",
               ext |-> ApiExt(call, outbuf), encoding |-> result.fmt,
               size |-> result.size]
    /\ gpc' = "done"
    /\ UNCHANGED <<ctor, self, call, processed, canvas, sequence, fk, frames,
                   durations, original_image, original_size, outbuf>>
    /\ UNCHANGED <<cvars, wvars>>

\* compress_to_size raised: the error leaves to_buffer or save.
RaiseFromCompress ==
    /\ gpc = "compressing"
    /\ pc = "raised"
    /\ ret' = [NoReturn EXCEPT !.kind = "raised", !.where = "compress_to_size"]
    /\ gpc' = "failed"
    /\ UNCHANGED <<ctor, self, call, processed, canvas, sequence, fk, frames,
                   durations, original_image, original_size, outbuf>>
    /\ UNCHANGED <<cvars, wvars>>

\* The sources of the public-call machine: still JPEG and PNG images, GIFs
\* of 1..MaxFrames frames with any declared durations, and a very wide GIF.
InfoDurations == {None, Some(0), Some(150)}
ApiImages ==
    {StillPicture("JPEG", "RGB", 16, 40), StillPicture("PNG", "RGBA", 16, 40)}
      \cup {GifPicture(16, 40, info) :
               info \in UNION {[1..n -> InfoDurations] : n \in 1..MaxFrames}}
      \cup {GifPicture(20000, 1, <<None, None>>)}

ApiInit ==
    /\ CompressIdle
    /\ WrapIdle
    /\ \E im \in ApiImages :
           CaptionNew(CtorArgs(im, <<"a", " ", "a">>, None, TRUE, None, None,
                               FALSE, FALSE))

ApiNext ==
    \/ Construct
    \/ CallToBuffer
    \/ CallSave
    \/ GifFrame
    \/ GifFrameRaise
    \/ GifSave
    \/ StaticEncode
    \/ ReturnDirect
    \/ CallCompress
    \/ ReturnCompressed
    \/ RaiseFromCompress
    \/ ReturnUnchanged
    \/ OpenAndDispatch
    \/ ConvertPngToJpeg
    \/ CompressJpegEnter
    \/ JpegPreset
    \/ JpegResizeReturn
    \/ JpegResizeIter
    \/ JpegResizeRaise
    \/ CompressGifEnter
    \/ GifIter
    \/ GifIterRaise

ApiSpec == ApiInit /\ [][ApiNext]_vars

RECURSIVE SumSeq(_)
SumSeq(q) == IF q = <<>> THEN 0 ELSE Head(q) + SumSeq(Tail(q))

\* C14: once generate_gif has composed an animated source of n frames, it has
\* n output frames in source order and n durations, the i-th being the i-th
\* source frame's declared duration, or 100 when it declares none; so the
\* durations sum to the source's.
C14_GifFramesAndDurations ==
    (gpc \in {"encoded", "compressing", "done"} /\ outbuf.fmt = "GIF")
        => LET n == ctor.image.n_frames
               declared == [k \in 1..n |->
                              IF ctor.image.info[k] = None THEN 100
                              ELSE ctor.image.info[k][1]] IN
           /\ Len(frames) = n
           /\ Len(durations) = n
           /\ \A k \in 1..n : frames[k].src = k /\ durations[k] = declared[k]
           /\ SumSeq(durations) = SumSeq(declared)

\* C14's case: a three-frame source whose first frame declares no duration.
C14_Witness ==
    /\ gpc = "done"
    /\ ctor.image.info = <<None, Some(0), Some(150)>>
    /\ durations = <<100, 0, 150>>
    /\ Len(frames) = 3

\* C15: when composing a frame raises inside generate_gif, self.image,
\* self.width and self.height are back at their pre-call values by the time
\* the error has left the call.
C15_RestoredWhenFrameRaises ==
    (gpc = "failed" /\ ret.where = "generate_gif")
        => /\ self.image = ctor.image
           /\ self.width = ctor.image.w
           /\ self.height = ctor.image.h

\* C16: when generate_gif has returned normally on an animated source,
\* self.image is the original animated source again, with its width and
\* height, and _is_animated_gif still holds.
C16_RestoredWhenGifReturns ==
    (gpc \in {"encoded", "compressing", "done"} /\ IsAnimatedGif(ctor.image))
        => /\ self.image = ctor.image
           /\ self.width = ctor.image.w
           /\ self.height = ctor.image.h
           /\ IsAnimatedGif(self.image)

\* C18: for a static source, to_buffer returns 'png' only with PNG bytes and
\* 'jpg' only with JPEG bytes, and save writes PNG bytes to a path ending
\* in .png, with or without a size budget.
C18_ExtensionNamesEncoding ==
    (gpc = "done" /\ ~IsAnimatedGif(ctor.image))
        => /\ (call.api = "to_buffer" /\ ret.ext = "png") => ret.encoding = "PNG"
           /\ (call.api = "to_buffer" /\ ret.ext = "jpg") => ret.encoding = "JPEG"
           /\ (call.api = "save" /\ call.arg = "png") => ret.encoding = "PNG"

\* ------------------------------------------- _wrap_text on any whitespace
\* Texts whose whitespace is the separator " " and the tab, which str.split(' ')
\* leaves inside the words and str.strip() removes.
TabAlphabet == {"a", " ", "\t"}
TabTexts == UNION {[1..n -> TabAlphabet] : n \in 0..MaxLen}

\* A _wrap_text call on such a text, with any positive max_width.
WrapTabInit ==
    /\ CompressIdle
    /\ CaptionIdle
    /\ text \in TabTexts
    /\ max_width \in 1..MaxWidth
    /\ words = <<>>
    /\ i = 0
    /\ line = <<>>
    /\ lines = <<>>
    /\ wpc = "call"
    /\ wrapped = <<>>

\* The call runs on: a step of _wrap_text that can be taken is taken.
WrapTabSpec == WrapTabInit /\ [][WrapNext]_vars /\ WF_vars(WrapNext)

\* C21: _wrap_text neither loses, duplicates, reorders nor splits words: the
\* words of the output lines, read in order, are exactly the non-empty
\* space-separated words of the input text.
C21_WrapPreservesWords ==
    wpc = "done" => WordsOfLines(Split(wrapped, "\n")) = WordsOf(text)

\* C22: _wrap_text terminates for every text and every max_width, also when
\* max_width - WIDTH_PADDING <= 0 or a word is wider than the limit: every
\* line appended has consumed at least one word, so there are never more
\* lines than space-separated words, and the call returns.
C22_WrapTerminatesWithinWords ==
    /\ [](wpc \in {"outer", "inner", "done"}
            => /\ Len(lines) <= i - 1
               /\ i <= Len(words) + 1
               /\ Len(lines) <= Len(words))
    /\ <>(wpc = "done")

\* C22's case: a limit that is not positive and a text of two words, each
\* wider than the limit, returned as two lines.
C22_Witness ==
    /\ wpc = "done"
    /\ max_width - WIDTH_PADDING <= 0
    /\ text = <<"a", " ", "a">>
    /\ lines = << <<"a">>, <<"a">> >>

=============================================================================
